---- MODULE Spec2Model ----
(***************************************************************************)
(* A model of tortilla/wrappers.py: the Client (default headers, debug     *)
(* flag, time-based response cache, request) and the Wrap chain (lazy      *)
(* children kept in the instance __dict__, memoized parts(), request       *)
(* forwarding parent by parent up to the Client).                          *)
(*                                                                         *)
(* Python values: None is the empty set and a present value v is {v}, so   *)
(* that "absent", None and a value stay distinguishable.  A keyword of a   *)
(* **options dict is Absent ({}) or Given(v) ({v}); for debug and          *)
(* cache_lifetime v is itself None or Some(x), because dict.setdefault     *)
(* keeps an explicitly passed None.  A dict is the sequence of its         *)
(* <<key, value>> items in insertion order, which is what str() renders.   *)
(***************************************************************************)
EXTENDS Integers, Sequences, FiniteSets, TLC

VARIABLES
    py3,      \* the interpreter the package runs under: TRUE Python 3, FALSE Python 2
    wraps,    \* the Wrap objects, by identity 1..Len(wraps); each is its __dict__
    client,   \* the Client at the root of the chain: headers, debug, cache
    now,      \* time.time()
    ops,      \* the number of operations performed so far
    hist,     \* history: per cache key, the last GET with a positive lifetime that the transport served
    last      \* the most recent operation: its arguments and what it returned or raised

vars == <<py3, wraps, client, now, ops, hist, last>>

----------------------------------------------------------------------------
(* Bounds of the model *)

MaxWraps == 4
MaxTime == 3
MaxOps == 4

----------------------------------------------------------------------------
(* Python values *)

None == {}
Some(v) == {v}
Val(o) == CHOOSE v \in o : TRUE

Absent == {}
Given(v) == {v}

\* the parent of the root Wrap: the Client, which is no Wrap
ClientId == 0

\* truthiness of an optional str ('' and None are falsy)
TruthyStr(o) == o # None /\ Val(o) # ""

\* truthiness of an optional int (0 and None are falsy)
TruthyInt(o) == o # None /\ Val(o) # 0

----------------------------------------------------------------------------
(* dict: the sequence of <<key, value>> items in insertion order *)

DictKeys(d) == {d[i][1] : i \in 1..Len(d)}

DictGet(d, k) == LET i == CHOOSE j \in 1..Len(d) : d[j][1] = k IN d[i][2]

\* d[k] = v: an existing key keeps its place, a new key is appended
DictSet(d, k, v) ==
    IF k \in DictKeys(d)
    THEN [i \in 1..Len(d) |-> IF d[i][1] = k THEN <<k, v>> ELSE d[i]]
    ELSE Append(d, <<k, v>>)

RECURSIVE DictUpdate(_, _)
\* d.update(e), item by item in e's order
DictUpdate(d, e) ==
    IF e = << >> THEN d
    ELSE DictUpdate(DictSet(d, Head(e)[1], Head(e)[2]), Tail(e))

\* dict equality ignores insertion order
DictEq(d, e) == {d[i] : i \in 1..Len(d)} = {e[i] : i \in 1..Len(e)}

RECURSIVE JoinSlash(_)
\* '/'.join(list)
JoinSlash(s) ==
    IF s = << >> THEN ""
    ELSE IF Len(s) = 1 THEN s[1]
    ELSE s[1] \o "/" \o JoinSlash(Tail(s))

----------------------------------------------------------------------------
(* Wrap *)

\* the attributes Wrap.__init__ puts in every instance __dict__
FieldNames == {"part", "_parts", "parent", "headers", "debug", "cache_lifetime"}

\* the attributes the class Wrap defines: found by normal lookup before __getattr__
MethodNames == {"parts", "request", "get", "post", "put", "patch", "delete"}

\* self.headers = bunch.bunchify(headers) if headers else bunch.Bunch()
Wrap_init_headers(headers) ==
    IF headers # None /\ Val(headers) # << >> THEN Val(headers) ELSE << >>

Wrap_init(part, parent, headers, debug, cache_lifetime) ==
    [part           |-> part,
     _parts         |-> None,
     parent         |-> parent,
     headers        |-> Wrap_init_headers(headers),
     debug          |-> debug,
     cache_lifetime |-> cache_lifetime,
     children       |-> << >>]

\* the names under which w.__dict__ holds a child Wrap
ChildNames(w) == DictKeys(w.children)

FieldsOnly(w, name) == name \in FieldNames

\* key in self.__dict__
InDict(w, name) == name \in FieldNames \/ name \in ChildNames(w)

\* self.__dict__[name] as the caller sees it: a child Wrap, or the value of a field
DictItem(ws, n, name) ==
    IF name \in ChildNames(ws[n])
    THEN [kind |-> "Wrap", id |-> DictGet(ws[n].children, name)]
    ELSE IF name = "parent" /\ ws[n].parent # ClientId
    THEN [kind |-> "Wrap", id |-> ws[n].parent]
    ELSE [kind |-> "field", name |-> name]

\* the child a KeyError branch stores in self.__dict__[part]
AddChild(ws, n, w) ==
    Append([ws EXCEPT ![n].children = Append(@, <<w.part, Len(ws) + 1>>)], w)

WrongJoin(a, b) == b \o "/" \o a

Join2(a, b) == JoinSlash(<<a, b>>)

RECURSIVE Wrap_parts(_, _)
\* Wrap.parts(): the memoized path; memoizes every ancestor it asks
Wrap_parts(ws, n) ==
    IF TruthyStr(ws[n]._parts)
    THEN [ws |-> ws, ret |-> Val(ws[n]._parts)]
    ELSE IF ws[n].parent = ClientId
    THEN \* AttributeError: a Client has no parts()
         [ws |-> [ws EXCEPT ![n]._parts = Some(ws[n].part)], ret |-> ws[n].part]
    ELSE LET p == Wrap_parts(ws, ws[n].parent)
             s == Join2(p.ret, ws[n].part)
         IN [ws |-> [p.ws EXCEPT ![n]._parts = Some(s)], ret |-> s]

GetattrCopiesLifetime(ws, n, part) ==
    IF InDict(ws[n], part)
    THEN [ws |-> ws, ret |-> DictItem(ws, n, part)]
    ELSE LET w == Wrap_init(part, n, None, ws[n].debug, ws[n].cache_lifetime)
         IN [ws |-> AddChild(ws, n, w), ret |-> [kind |-> "Wrap", id |-> Len(ws) + 1]]

\* Wrap.__getattr__(part), reached only when normal attribute lookup fails;
\* normal lookup finds the instance __dict__ and the class attributes first
Wrap_getattr(ws, n, part) ==
    IF InDict(ws[n], part)
    THEN [ws |-> ws, ret |-> DictItem(ws, n, part)]
    ELSE IF part \in MethodNames
    THEN [ws |-> ws, ret |-> [kind |-> "method", id |-> n, name |-> part]]
    ELSE LET w == Wrap_init(part, n, None, ws[n].debug, None)
         IN [ws |-> AddChild(ws, n, w), ret |-> [kind |-> "Wrap", id |-> Len(ws) + 1]]

PatchDebugAlways(w, options) ==
    [w EXCEPT !.debug = IF options.debug = Absent THEN None ELSE Val(options.debug)]

\* self.__dict__.update(**options); part is __call__'s own parameter, never in options
Wrap_patch(w, options) ==
    [w EXCEPT
        !.parent         = IF options.parent = Absent THEN @ ELSE Val(options.parent),
        !.headers        = IF options.headers = Absent THEN @ ELSE Val(options.headers),
        !.debug          = IF options.debug = Absent THEN @ ELSE Val(options.debug),
        !.cache_lifetime = IF options.cache_lifetime = Absent THEN @
                           ELSE Val(options.cache_lifetime)]

\* Wrap.__call__(part=None, **options)
Wrap_call(ws, n, part, options) ==
    IF ~TruthyStr(part)
    THEN [ws |-> [ws EXCEPT ![n] = Wrap_patch(@, options)],
          ret |-> [kind |-> "Wrap", id |-> n]]
    ELSE IF InDict(ws[n], Val(part))
    THEN [ws |-> ws, ret |-> DictItem(ws, n, Val(part))]
    ELSE IF options.debug # Absent \/ options.parent # Absent
    THEN \* Wrap(part=part, parent=self, debug=self.debug, **options):
         \* got multiple values for keyword argument 'debug' or 'parent' (a
         \* TypeError; CPython 3.11 lets it out of this except block as KeyError)
         [ws |-> ws, ret |-> [kind |-> "raise", exc |-> "TypeError"]]
    ELSE LET w == Wrap_init(Val(part), n,
                            IF options.headers = Absent THEN None
                            ELSE Some(Val(options.headers)),
                            ws[n].debug,
                            IF options.cache_lifetime = Absent THEN None
                            ELSE Val(options.cache_lifetime))
         IN [ws |-> AddChild(ws, n, w), ret |-> [kind |-> "Wrap", id |-> Len(ws) + 1]]

----------------------------------------------------------------------------
(* Client *)

\* str(x) of None or of a dict, as the sequence of its tokens
Str(x) ==
    IF x = None THEN <<"None">>
    ELSE LET d == Val(x)
             RECURSIVE Items(_)
             Items(e) == IF e = << >> THEN << >>
                         ELSE <<Head(e)[1], ":", Head(e)[2], ",">> \o Items(Tail(e))
         IN <<"{">> \o Items(d) \o <<"}">>

\* str.lower() on the spellings of a method
Lower(m) ==
    CASE m = "GET" -> "get"
      [] m = "Get" -> "get"
      [] m = "POST" -> "post"
      [] OTHER -> m

\* bunch.bunchify(x): a dict becomes a Bunch of the same items, a scalar stays
bunchify(x) == IF x.kind = "dict" THEN [x EXCEPT !.kind = "Bunch"] ELSE x

\* Client.__init__(debug)
Client_init(debug) ==
    [headers |-> [items |-> << >>, attrs |-> << >>],
     debug   |-> debug,
     cache   |-> [k \in {} |-> None]]

\* Client._log(message, debug, **kwargs): the traces printed, given those so far
Client_log(c, traces, message, debug) ==
    LET display_log == IF debug # None THEN debug ELSE c.debug
    IN IF display_log = Some(TRUE) THEN Append(traces, message) ELSE traces

\* path: a str is used as it is, a list or tuple is joined by '/'
PathStr(path) == IF path[1] = "str" THEN path[2] ELSE JoinSlash(path[2])

\* request_headers = dict(self.headers.__dict__); request_headers.update(headers)
RequestHeaders(c, headers) ==
    IF headers # None THEN DictUpdate(c.headers.attrs, Val(headers))
    ELSE c.headers.attrs

CacheKey(url, params, headers) == <<url, Str(params), Str(headers)>>

AlwaysExpired(item, t) == FALSE

\* item['expires'] > time.time()
Unexpired(item, t) == item.expires > t

BadExpires(t, cache_lifetime) == t

\* the expiry of an entry stored at time t
Expires(t, cache_lifetime) == t + Val(cache_lifetime)

AnyMethod(method) == TRUE

\* method.lower() == 'get'
IsGet(method) == Lower(method) = "get"

CacheKeep(cache, k) == cache

\* del self.cache[cache_key]
CacheDel(cache, k) == [x \in DOMAIN cache \ {k} |-> cache[x]]

\* self.cache[cache_key] = item
CachePut(cache, k, item) == [x \in DOMAIN cache \cup {k} |-> IF x = k THEN item ELSE cache[x]]

\* Client.request(method, url, path, params, headers, data, debug, cache_lifetime)
\* at time t, the transport answering resp after delay
Client_request(c, t, method, url0, path, params, headers, data, debug0, cache_lifetime, resp, delay) ==
    LET request_headers == RequestHeaders(c, headers)
        debug == IF debug0 = None THEN c.debug ELSE debug0
        url == url0 \o PathStr(path)
        tr1 == Client_log(c, << >>, "request", debug)
        cache_key == CacheKey(url, params, headers)
        hit == cache_key \in DOMAIN c.cache /\ Unexpired(c.cache[cache_key], t)
        cache1 == IF cache_key \in DOMAIN c.cache THEN CacheDel(c.cache, cache_key)
                  ELSE c.cache
        sent == [method |-> method, url |-> url, params |-> params,
                 headers |-> request_headers, data |-> data]
        t2 == t + delay
        base == [key |-> cache_key, url |-> url, headers |-> headers,
                 debug |-> debug, cache_lifetime |-> cache_lifetime,
                 resp |-> Some(resp)]
    IN IF hit
       THEN [base EXCEPT !.resp = None] @@
            [client |-> c, t |-> t, outcome |-> "ok", sent |-> None,
             ret |-> Some(bunchify(c.cache[cache_key].value)),
             traces |-> Client_log(c, tr1, "cached_response", debug)]
       ELSE IF ~resp.answered
       THEN \* requests.request raises: connection refused, timeout, ...
            base @@
            [client |-> [c EXCEPT !.cache = cache1], t |-> t2,
             outcome |-> "TransportError", sent |-> Some(sent), ret |-> None,
             traces |-> tr1]
       ELSE IF resp.body = None
       THEN \* r.json() raises ValueError
            base @@
            [client |-> [c EXCEPT !.cache = cache1], t |-> t2,
             outcome |-> "ValueError", sent |-> Some(sent), ret |-> None,
             traces |-> tr1]
       ELSE IF cache_lifetime = None /\ py3
       THEN \* None > 0: '>' not supported between 'NoneType' and 'int'
            base @@
            [client |-> [c EXCEPT !.cache = cache1], t |-> t2,
             outcome |-> "TypeError", sent |-> Some(sent), ret |-> None,
             traces |-> tr1]
       ELSE LET json_response == Val(resp.body)
                store == /\ cache_lifetime # None
                         /\ Val(cache_lifetime) > 0
                         /\ IsGet(method)
                cache2 == IF store
                          THEN CachePut(cache1, cache_key,
                                        [expires |-> Expires(t2, cache_lifetime),
                                         value |-> json_response])
                          ELSE cache1
                debug_message == IF resp.status = 200 THEN "success_response"
                                 ELSE "failure_response"
            IN base @@
               [client |-> [c EXCEPT !.cache = cache2], t |-> t2,
                outcome |-> "ok", sent |-> Some(sent),
                ret |-> Some(bunchify(json_response)),
                traces |-> Client_log(c, tr1, debug_message, debug)]

----------------------------------------------------------------------------
(* Wrap.request *)

Digit(d) == <<"0", "1", "2", "3", "4", "5", "6", "7", "8", "9">>[d + 1]

RECURSIVE to_unicode(_)
\* compat.to_unicode(pk) of a non-negative int: its decimal digits
to_unicode(i) == IF i < 10 THEN Digit(i) ELSE to_unicode(i \div 10) \o Digit(i % 10)

\* "if pk:" -- the test that decides whether the primary key is joined to the URL
PkGiven(pk) == TruthyInt(pk)

\* options['url'] when the caller set none
RequestUrl(parts, pk) ==
    IF PkGiven(pk) THEN JoinSlash(<<parts, to_unicode(Val(pk))>>) ELSE parts

SetDefaultOverride(option, own) ==
    IF own # None THEN Given(own) ELSE option

\* options.setdefault(key, own) under "if own is not None"
SetDefault(option, own) ==
    IF own # None /\ option = Absent THEN Given(own) ELSE option

OwnWins(own, headers) ==
    IF headers # None THEN DictUpdate(Val(headers), own) ELSE own

\* headers = self.headers.copy(); headers.update(options['headers'])
MergedHeaders(own, headers) ==
    IF headers # None /\ Val(headers) # << >> THEN DictUpdate(own, Val(headers))
    ELSE own

HeadersUpdated(own, headers) == MergedHeaders(own, headers)

\* self.headers once the call is over: the update went to a copy
HeadersKept(own, headers) == own

RECURSIVE Wrap_request(_, _, _, _)
\* Wrap.request(method, pk, **options) up to the call of Client.request:
\* the Wrap objects afterwards (parts() memoizes) and the options the Client receives
Wrap_request(ws, n, pk, options) ==
    LET unset == ~TruthyStr(options.url)
        p == Wrap_parts(ws, n)
        ws1 == IF unset THEN p.ws ELSE ws
        ws2 == [ws1 EXCEPT ![n].headers = HeadersKept(@, options.headers)]
        o1 == [options EXCEPT
                 !.url = IF unset THEN Some(RequestUrl(p.ret, pk)) ELSE @,
                 !.debug = SetDefault(@, ws[n].debug),
                 !.cache_lifetime = SetDefault(@, ws[n].cache_lifetime),
                 !.headers = Some(MergedHeaders(ws[n].headers, @))]
    IN IF ws[n].parent = ClientId THEN [ws |-> ws2, options |-> o1]
       ELSE Wrap_request(ws2, ws[n].parent, None, o1)

\* a keyword the caller left out takes the default of Client.request: None
Arg(option) == IF option = Absent THEN None ELSE Val(option)

----------------------------------------------------------------------------
(* The operations *)

\* node.name
GetAttr(n, name) ==
    LET r == Wrap_getattr(wraps, n, name)
    IN /\ ops < MaxOps
       /\ Len(r.ws) <= MaxWraps
       /\ ops' = ops + 1
       /\ wraps' = r.ws
       /\ last' = [op |-> "getattr", node |-> n, name |-> name, ret |-> r.ret]
       /\ UNCHANGED <<py3, client, now, hist>>

\* node(part, **options) and node(**options)
Call(n, part, options) ==
    LET r == Wrap_call(wraps, n, part, options)
    IN /\ ops < MaxOps
       /\ Len(r.ws) <= MaxWraps
       /\ ops' = ops + 1
       /\ wraps' = r.ws
       /\ last' = [op |-> "call", node |-> n, part |-> part, options |-> options,
                   ret |-> r.ret]
       /\ UNCHANGED <<py3, client, now, hist>>

\* node.parts()
Parts(n) ==
    LET r == Wrap_parts(wraps, n)
    IN /\ ops < MaxOps
       /\ ops' = ops + 1
       /\ wraps' = r.ws
       /\ last' = [op |-> "parts", node |-> n, ret |-> r.ret]
       /\ UNCHANGED <<py3, client, now, hist>>

\* node.request(method, pk, **options); node.get(pk, **options) is
\* node.request('get', pk, **options), and so for post, put, patch, delete
Request(n, method, pk, options, resp, delay) ==
    \E f \in {Wrap_request(wraps, n, pk, options)} :
    \E r \in {Client_request(client, now, method, Val(f.options.url),
                             f.options.path, f.options.params, f.options.headers,
                             f.options.data, Arg(f.options.debug),
                             Arg(f.options.cache_lifetime), resp, delay)} :
       LET served == /\ r.outcome = "ok" /\ r.sent # None
                     /\ Lower(method) = "get"
                     /\ TruthyInt(r.cache_lifetime) /\ Val(r.cache_lifetime) > 0
       IN /\ ops < MaxOps
          /\ r.t <= MaxTime
          /\ ops' = ops + 1
          /\ wraps' = f.ws
          /\ client' = r.client
          /\ now' = r.t
          /\ hist' = IF served
                     THEN [k \in DOMAIN hist \cup {r.key} |->
                             IF k = r.key
                             THEN [t |-> r.t, lifetime |-> Val(r.cache_lifetime),
                                   value |-> r.ret]
                             ELSE hist[k]]
                     ELSE hist
          /\ last' = [op |-> "request", node |-> n, method |-> method, pk |-> pk,
                      options |-> options, t |-> now, key |-> r.key, url |-> r.url,
                      headers |-> r.headers, debug |-> r.debug,
                      cache_lifetime |-> r.cache_lifetime, resp |-> r.resp,
                      sent |-> r.sent, outcome |-> r.outcome, ret |-> r.ret,
                      traces |-> r.traces]
          /\ UNCHANGED py3

\* client.headers.key = value, or client.headers[key] = value, on the
\* bunch.Bunch that Client.__init__ made: a Bunch is a dict whose attribute
\* assignment stores an item; its instance __dict__ (attrs) is left alone
SetClientHeader(key, value) ==
    /\ ops < MaxOps
    /\ ops' = ops + 1
    /\ client' = [client EXCEPT !.headers.items = DictSet(@, key, value)]
    /\ last' = [op |-> "set_header", key |-> key, value |-> value]
    /\ UNCHANGED <<py3, wraps, now, hist>>

\* time passes
Tick ==
    /\ now < MaxTime
    /\ now' = now + 1
    /\ UNCHANGED <<py3, wraps, client, ops, hist, last>>

----------------------------------------------------------------------------
(* Inputs *)

\* the part of the root Wrap
RootPart == "https://api.example.com"

\* names a caller asks a child for: a free name, the name of a method
\* of Wrap and the name of a field of Wrap
Names == {"a", "delete", "debug"}

Debugs == {None, Some(TRUE), Some(FALSE)}

H1 == << <<"X", "1">> >>
H2 == << <<"X", "2">>, <<"Y", "1">> >>

\* no keyword at all
NoOptions ==
    [parent |-> Absent, headers |-> Absent, debug |-> Absent, cache_lifetime |-> Absent]

\* the keywords of node(part, **options)
CallOptions ==
    [parent : {Absent},
     headers : {Absent, Given(H1)},
     debug : {Absent, Given(Some(TRUE))},
     cache_lifetime : {Absent, Given(Some(2))}]

----------------------------------------------------------------------------
(* Specifications *)

\* root = Wrap(RootPart, headers=h, debug=d, cache_lifetime=c): no parent is
\* given, so the root makes its own Client(debug=d)
InitWith(P, D, H, L) ==
    /\ py3 \in P
    /\ \E d \in D, h \in H, c \in L :
          /\ wraps = <<Wrap_init(RootPart, ClientId, h, d, c)>>
          /\ client = Client_init(d)
    /\ now = 0
    /\ ops = 0
    /\ hist = [k \in {} |-> None]
    /\ last = [op |-> "init"]

Nodes == 1..Len(wraps)

\* child access with construction options: node.name, node(name, **options)
MaxChildOps == MaxOps - 1

InitChild == InitWith({TRUE}, Debugs, {None}, {None})

NextChild ==
    \/ \E n \in Nodes, name \in Names :
          ops < MaxChildOps /\ GetAttr(n, name)
    \/ \E n \in Nodes, name \in Names, o \in CallOptions :
          ops < MaxChildOps /\ Call(n, Some(name), o)

SpecChild == InitChild /\ [][NextChild]_vars

\* chains built by child access, and their paths
PathNames == {"a", "b", "delete"}

InitPath == InitWith({TRUE}, {None}, {None}, {None})

NextPath ==
    \/ \E n \in Nodes, name \in PathNames : GetAttr(n, name)
    \/ \E n \in Nodes, name \in PathNames : Call(n, Some(name), NoOptions)
    \/ \E n \in Nodes : Parts(n)

SpecPath == InitPath /\ [][NextPath]_vars

\* the keywords of node.request(method, pk, **options) a caller left out
NoRequestOptions ==
    [url |-> None, debug |-> Absent, cache_lifetime |-> Absent, headers |-> None,
     params |-> None, data |-> None, path |-> <<"list", << >> >>]

\* JSON bodies the transport can answer with
Body1 == [kind |-> "dict", v |-> 1]
Body2 == [kind |-> "dict", v |-> 2]

Ok200 == [answered |-> TRUE, status |-> 200, body |-> Some(Body1)]

P1 == << <<"q", "1">> >>

\* requests through the chain: URL, headers and debug resolution
MaxRequestWraps == MaxWraps - 2

InitRequest == InitWith({TRUE}, Debugs, {None, Some(H1)}, {Some(0)})

RequestOptions ==
    {[NoRequestOptions EXCEPT !.url = u, !.debug = d, !.headers = h] :
        u \in {None, Some("http://other")},
        d \in {Absent, Given(Some(TRUE)), Given(Some(FALSE))},
        h \in {None, Some(H2)}}

NextRequest ==
    \/ \E n \in Nodes :
          Len(wraps) < MaxRequestWraps /\ GetAttr(n, "a")
    \/ \E n \in Nodes, d \in {Some(TRUE), Some(FALSE)} :
          Call(n, None, [NoOptions EXCEPT !.debug = Given(d)])
    \/ \E n \in Nodes, pk \in {None, Some(0), Some(42)}, o \in RequestOptions :
          Request(n, "get", pk, o, Ok200, 0)

SpecRequest == InitRequest /\ [][NextRequest]_vars

\* the response cache
MaxCacheOps == MaxOps - 1

InitCache == InitWith(BOOLEAN, {None}, {None}, {None, Some(2)})

CacheOptions ==
    {[NoRequestOptions EXCEPT !.cache_lifetime = c] :
        c \in {Absent, Given(Some(0)), Given(Some(1))}}
    \cup {[NoRequestOptions EXCEPT !.cache_lifetime = Given(Some(1)),
                                   !.params = Some(P1)]}

\* an answer of the transport and the time it took
Transports ==
    {<<[answered |-> TRUE, status |-> 200, body |-> Some(Body1)], 0>>,
     <<[answered |-> TRUE, status |-> 201, body |-> Some(Body2)], 1>>,
     <<[answered |-> TRUE, status |-> 404, body |-> Some(Body1)], 0>>,
     <<[answered |-> TRUE, status |-> 200, body |-> None], 0>>,
     <<[answered |-> FALSE, status |-> 0, body |-> None], 1>>}

NextCache ==
    \/ \E method \in {"get", "GET", "post"}, o \in CacheOptions, a \in Transports :
          ops < MaxCacheOps /\ Request(1, method, None, o, a[1], a[2])
    \/ Tick

SpecCache == InitCache /\ [][NextCache]_vars

\* bare calls that patch a node, between child accesses
MaxPatchOps == MaxOps - 1

PatchNames == {"a", "b"}

PatchOptions ==
    [parent : {Absent},
     headers : {Absent, Given(H1)},
     debug : {Absent, Given(Some(TRUE)), Given(Some(FALSE))},
     cache_lifetime : {Absent, Given(Some(2))}]

InitPatch == InitWith({TRUE}, Debugs, {None}, {None})

NextPatch ==
    \/ \E n \in Nodes, name \in PatchNames :
          ops < MaxPatchOps /\ GetAttr(n, name)
    \/ \E n \in Nodes, o \in PatchOptions :
          ops < MaxPatchOps /\ Call(n, None, o)

SpecPatch == InitPatch /\ [][NextPatch]_vars

\* default headers of the Client, and requests that pass headers or none
H3 == << <<"Z", "9">> >>

HeaderOptions ==
    {[NoRequestOptions EXCEPT !.headers = h] : h \in {None, Some(H2), Some(H3)}}

InitHeaders == InitWith({TRUE}, {None}, {None, Some(H1)}, {Some(0)})

NextHeaders ==
    \/ \E k \in {"X", "Z"}, v \in {"1", "7"} : SetClientHeader(k, v)
    \/ \E o \in HeaderOptions : Request(1, "get", None, o, Ok200, 0)

SpecHeaders == InitHeaders /\ [][NextHeaders]_vars

\* cache lookup by requests of every kind
MaxLookupOps == MaxOps - 1

LookupOptions ==
    {[NoRequestOptions EXCEPT !.cache_lifetime = c, !.data = d] :
        c \in {Absent, Given(Some(0))}, d \in {None, Some("payload")}}

InitLookup == InitWith({TRUE}, {None}, {None}, {Some(2)})

NextLookup ==
    \/ \E method \in {"get", "post", "delete"}, o \in LookupOptions,
          a \in {<<Ok200, 0>>, <<[Ok200 EXCEPT !.body = Some(Body2)], 1>>} :
          ops < MaxLookupOps /\ Request(1, method, None, o, a[1], a[2])
    \/ ops < MaxLookupOps /\ SetClientHeader("X", "1")
    \/ Tick

SpecLookup == InitLookup /\ [][NextLookup]_vars

\* the debug traces of requests
MaxTraceOps == MaxOps - 1

TraceOptions ==
    {[NoRequestOptions EXCEPT !.debug = d] :
        d \in {Absent, Given(Some(TRUE)), Given(Some(FALSE))}}

InitTrace == InitWith({TRUE}, Debugs, {None}, {None, Some(2)})

NextTrace ==
    \/ \E method \in {"get", "post"}, o \in TraceOptions, a \in Transports :
          ops < MaxTraceOps /\ Request(1, method, None, o, a[1], a[2])
    \/ Tick

SpecTrace == InitTrace /\ [][NextTrace]_vars

\* requests from nodes of a chain whose nodes store headers of their own
MaxChainOps == MaxOps - 1

ChainNames == {"a", "b"}

HB == << <<"Y", "3">> >>
H4 == << <<"Y", "8">>, <<"Z", "9">> >>

ChainCallOptions ==
    {[NoOptions EXCEPT !.headers = h] : h \in {Absent, Given(H2), Given(HB)}}

ChainRequestOptions ==
    {[NoRequestOptions EXCEPT !.headers = h] : h \in {None, Some(H4)}}

InitChain == InitWith({TRUE}, {None}, {None, Some(H1)}, {Some(0)})

NextChain ==
    \/ \E n \in Nodes, name \in ChainNames, o \in ChainCallOptions :
          ops < MaxChainOps /\ Call(n, Some(name), o)
    \/ \E n \in Nodes, pk \in {None, Some(42)}, o \in ChainRequestOptions :
          ops < MaxChainOps /\ Request(n, "get", pk, o, Ok200, 0)

SpecChain == InitChain /\ [][NextChain]_vars

\* requests from nodes of a chain whose cache lifetimes are set and changed
MaxLifetimeWraps == MaxWraps - 1

LifetimeOptions ==
    {[NoRequestOptions EXCEPT !.cache_lifetime = c] :
        c \in {Absent, Given(Some(0)), Given(None)}}

InitLifetime == InitWith({TRUE}, {None}, {None}, {None, Some(2)})

NextLifetime ==
    \/ \E n \in Nodes :
          Len(wraps) < MaxLifetimeWraps /\ GetAttr(n, "a")
    \/ \E n \in Nodes :
          Call(n, None, [NoOptions EXCEPT !.cache_lifetime = Given(Some(3))])
    \/ \E n \in Nodes, o \in LifetimeOptions :
          Request(n, "get", None, o, Ok200, 0)

SpecLifetime == InitLifetime /\ [][NextLifetime]_vars

RECURSIVE Lineage(_, _)
\* n and its ancestors
Lineage(ws, n) ==
    {n} \cup (IF ws[n].parent = ClientId THEN {} ELSE Lineage(ws, ws[n].parent))

\* paths asked and requested between child accesses and bare calls that
\* pass parent=, one of the arguments of the Wrap initializer; p is a Wrap
\* that does not descend from n (a cycle of parents would never end parts())
InitMemo == InitWith({TRUE}, {None}, {None}, {Some(0)})

NextMemo ==
    \/ \E n \in Nodes, name \in ChainNames : GetAttr(n, name)
    \/ \E n \in Nodes, p \in Nodes :
          /\ n \notin Lineage(wraps, p)
          /\ Call(n, None, [NoOptions EXCEPT !.parent = Given(p)])
    \/ \E n \in Nodes : Parts(n)
    \/ \E n \in Nodes : Request(n, "get", None, NoRequestOptions, Ok200, 0)

SpecMemo == InitMemo /\ [][NextMemo]_vars

\* every operation on every input above; the specifications above are its
\* restrictions to the operations and inputs a group of properties is about
Init == InitWith(BOOLEAN, Debugs, {None, Some(H1)}, {None, Some(0), Some(2)})

Next == NextChild \/ NextPath \/ NextRequest \/ NextCache \/ NextPatch
          \/ NextHeaders \/ NextLookup \/ NextTrace
          \/ NextChain \/ NextLifetime \/ NextMemo

Spec == Init /\ [][Next]_vars

----------------------------------------------------------------------------
(* Claims *)

\* the step just taken is an operation (not the passing of time)
Operated == ops' = ops + 1

\* the step just taken is a child access: node.name or node(name, **options)
Accessed ==
    /\ Operated
    /\ \/ last'.op = "getattr"
       \/ last'.op = "call" /\ TruthyStr(last'.part)

AccessedName == IF last'.op = "getattr" THEN last'.name ELSE Val(last'.part)

\* C2: every child access by a name, property-style or call-style, returns the
\* one child Wrap the node holds under that name: it is constructed by the
\* first access and every later access returns that same instance, never a
\* new one.  (Calls that pass debug= are left out: they are C10's.)
C2_ChildIdentity ==
    [][(Accessed /\ (last'.op = "call" => last'.options.debug = Absent)) =>
         LET n == last'.node
             name == AccessedName
         IN /\ last'.ret.kind = "Wrap"
            /\ name \in ChildNames(wraps'[n])
            /\ DictGet(wraps'[n].children, name) = last'.ret.id
            /\ IF name \in ChildNames(wraps[n])
               THEN /\ DictGet(wraps[n].children, name) = last'.ret.id
                    /\ Len(wraps') = Len(wraps)
               ELSE /\ Len(wraps') = Len(wraps) + 1
                    /\ last'.ret.id = Len(wraps')]_vars

RECURSIVE ExpectedPath(_, _)
\* the segments from the root down to n, joined by single slashes
ExpectedPath(ws, n) ==
    IF ws[n].parent = ClientId THEN ws[n].part
    ELSE ExpectedPath(ws, ws[n].parent) \o "/" \o ws[n].part

RECURSIVE Depth(_, _)
\* the number of ancestors of n
Depth(ws, n) == IF ws[n].parent = ClientId THEN 0 ELSE 1 + Depth(ws, ws[n].parent)

\* C3: parts() of a node of a chain built by child access is the segments
\* from the root down to the node joined by single slashes, the root's
\* being its segment alone; the memoized value is that same string.
C3_PathResolution ==
    /\ last.op = "parts" => last.ret = ExpectedPath(wraps, last.node)
    /\ \A n \in Nodes :
          wraps[n]._parts # None => Val(wraps[n]._parts) = ExpectedPath(wraps, n)

\* C3 witness: parts() was asked of the fourth node of a chain root/a/b/delete
C3_Witness ==
    /\ last.op = "parts"
    /\ Depth(wraps, last.node) = 3
    /\ last.ret = "https://api.example.com/a/b/delete"

\* C10: node(name, headers=h, debug=d, cache_lifetime=c) for a free name the
\* node holds no child under yet, with any subset of the three options,
\* returns a new child with that segment and that parent whose headers,
\* debug and cache_lifetime are the supplied values (debug falling back to
\* the parent's), and never fails.
C10_CallCreatesChild ==
    [][(/\ Operated
        /\ last'.op = "call"
        /\ TruthyStr(last'.part)
        /\ Val(last'.part) \notin FieldNames \cup MethodNames
        /\ Val(last'.part) \notin ChildNames(wraps[last'.node])) =>
         /\ last'.ret.kind = "Wrap"
         /\ last'.ret.id = Len(wraps) + 1
         /\ LET c == wraps'[last'.ret.id]
                o == last'.options
            IN /\ c.part = Val(last'.part)
               /\ c.parent = last'.node
               /\ c.headers = IF o.headers = Absent THEN << >> ELSE Val(o.headers)
               /\ c.debug = IF o.debug = Absent THEN wraps[last'.node].debug
                            ELSE Val(o.debug)
               /\ c.cache_lifetime = IF o.cache_lifetime = Absent THEN None
                                     ELSE Val(o.cache_lifetime)]_vars

\* the decimal text of the primary keys the requests carry
PkText(pk) == IF pk = 0 THEN "0" ELSE IF pk = 42 THEN "42" ELSE "?"

\* C4: a verb call whose options set no url hands Client.request the path
\* of the node followed by "/" and the primary key as text when pk is
\* given, 0 included, and the path of the node alone when it is not.
C4_UrlWithPk ==
    (last.op = "request" /\ last.options.url = None) =>
        last.url = IF last.pk # None
                   THEN ExpectedPath(wraps, last.node) \o "/" \o PkText(Val(last.pk))
                   ELSE ExpectedPath(wraps, last.node)

\* the attribute-navigable form of a parsed JSON object
Navigable(body) == [kind |-> "Bunch", v |-> body.v]

\* C5: whenever the transport answers with a body that is valid JSON, the
\* request returns the parsed body and raises nothing, for every method,
\* status code and cache lifetime (absent, zero, positive).
C5_ReturnsParsedBody ==
    (/\ last.op = "request"
     /\ last.resp # None
     /\ Val(last.resp).answered
     /\ Val(last.resp).body # None) =>
        /\ last.outcome = "ok"
        /\ last.ret = Some(Navigable(Val(Val(last.resp).body)))

\* the spellings of GET among the methods requested
GetSpellings == {"get", "GET", "Get"}

\* C1: once the transport has served a GET with lifetime L > 0 that
\* completed at time t, every request under the same (URL, params, headers)
\* made before t + L returns that value without a transport call, and a
\* request made after t + L calls the transport again.
C1_CacheRoundTrip ==
    [][(Operated /\ last'.op = "request" /\ last'.key \in DOMAIN hist) =>
         LET h == hist[last'.key]
         IN /\ last'.t < h.t + h.lifetime =>
                 /\ last'.sent = None
                 /\ last'.outcome = "ok"
                 /\ last'.ret = h.value
            /\ last'.t > h.t + h.lifetime => last'.sent # None]_vars

\* C1 witness: a request made later than the GET that stored the entry, and
\* before its expiry, was answered from the cache
C1_Witness ==
    /\ last.op = "request"
    /\ last.key \in DOMAIN hist
    /\ last.t > hist[last.key].t
    /\ last.t < hist[last.key].t + hist[last.key].lifetime
    /\ last.sent = None
    /\ last.ret = hist[last.key].value

\* C1, the other half reached: a request made after the expiry went to the transport
C1_Refetched ==
    /\ last.op = "request"
    /\ last.key \in DOMAIN hist
    /\ last.t > hist[last.key].t + hist[last.key].lifetime
    /\ last.sent # None

\* C6: a cache entry is added or overwritten only by a request that is a GET
\* (in any case) with a strictly positive lifetime whose transport call and
\* JSON parse completed, and under that request's own key.
C6_CachePopulation ==
    [][\A k \in DOMAIN client'.cache :
          (k \notin DOMAIN client.cache \/ client'.cache[k] # client.cache[k]) =>
              /\ Operated
              /\ last'.op = "request"
              /\ last'.key = k
              /\ last'.method \in GetSpellings
              /\ last'.cache_lifetime # None
              /\ Val(last'.cache_lifetime) > 0
              /\ last'.sent # None
              /\ last'.outcome = "ok"]_vars

\* C6 witness: the GET just made stored its answer, parsed from a 201
C6_Witness ==
    /\ last.op = "request"
    /\ last.method = "GET"
    /\ last.sent # None
    /\ last.key \in DOMAIN client.cache
    /\ client.cache[last.key].value = Body2

\* C7 as stated: a request whose body is no JSON leaves the cache mapping
\* equal to what it was before the call.
C7_CacheUntouched ==
    [][(Operated /\ last'.op = "request" /\ last'.outcome = "ValueError") =>
          client'.cache = client.cache]_vars

\* C7 amended: a request whose body is no JSON raises, adds no entry and
\* changes none; the one thing gone is an entry under the request's own key
\* that had expired when the request looked it up.
C7_CacheOnlyEvicts ==
    [][(Operated /\ last'.op = "request" /\ last'.outcome = "ValueError") =>
          /\ last'.ret = None
          /\ client'.cache =
               IF /\ last'.key \in DOMAIN client.cache
                  /\ client.cache[last'.key].expires <= last'.t
               THEN [k \in DOMAIN client.cache \ {last'.key} |-> client.cache[k]]
               ELSE client.cache]_vars

\* C7 witness: the request that failed to parse found an expired entry
\* under its key, which is gone, while another entry is still there
C7_Witness ==
    /\ last.op = "request"
    /\ last.outcome = "ValueError"
    /\ last.key \in DOMAIN hist
    /\ last.key \notin DOMAIN client.cache
    /\ DOMAIN client.cache # {}

\* the header keys stored on a node and on its ancestors
RECURSIVE ChainKeys(_, _)
ChainKeys(ws, n) ==
    DictKeys(ws[n].headers) \cup
    (IF ws[n].parent = ClientId THEN {} ELSE ChainKeys(ws, ws[n].parent))

\* C8: a verb call that passes options.headers leaves the stored headers of
\* the node and of every other node as they were, so a call without
\* options.headers carries only keys stored on the chain.
C8_HeadersNotSticky ==
    [][(Operated /\ last'.op = "request") =>
          /\ \A n \in 1..Len(wraps) : wraps'[n].headers = wraps[n].headers
          /\ last'.options.headers = None =>
                DictKeys(Val(last'.headers)) \subseteq ChainKeys(wraps, last'.node)]_vars

\* C8 witness: a call passed X=2, Y=1 on a node that stores X=1; the call
\* carried the merged headers and the node still stores X=1
C8_Witness ==
    /\ last.op = "request"
    /\ last.options.headers = Some(H2)
    /\ wraps[last.node].headers = H1
    /\ DictEq(Val(last.headers), H2)

\* C9: a child made by property-style access takes the debug (True or
\* False) of the node it was made from; a request from a node whose debug
\* is True or False, without a debug option, reaches the Client with that
\* debug; a debug option of the call wins.
C9_DebugInheritance ==
    [][Operated =>
          /\ (/\ last'.op = "getattr"
              /\ Len(wraps') = Len(wraps) + 1
              /\ wraps[last'.node].debug # None) =>
                 wraps'[Len(wraps')].debug = wraps[last'.node].debug
          /\ (/\ last'.op = "request"
              /\ wraps[last'.node].debug # None
              /\ last'.options.debug = Absent) =>
                 last'.debug = wraps[last'.node].debug
          /\ (/\ last'.op = "request"
              /\ last'.options.debug # Absent
              /\ Val(last'.options.debug) # None) =>
                 last'.debug = Val(last'.options.debug)]_vars

\* C9 witness: a child that inherited False requested without a debug
\* option, after its parent was switched to True, and the Client saw False
C9_Witness ==
    /\ last.op = "request"
    /\ wraps[last.node].parent # ClientId
    /\ wraps[last.node].debug = Some(FALSE)
    /\ wraps[wraps[last.node].parent].debug = Some(TRUE)
    /\ last.options.debug = Absent
    /\ last.debug = Some(FALSE)

\* C11: node(name, **opts) on a name the node already holds a child under
\* returns that child and changes no Wrap at all (so the child's headers,
\* debug and cache_lifetime stay), whatever opts are passed, debug included.
C11_FirstCallWins ==
    [][(/\ Operated
        /\ last'.op = "call"
        /\ TruthyStr(last'.part)
        /\ Val(last'.part) \in ChildNames(wraps[last'.node])) =>
          /\ last'.ret = [kind |-> "Wrap",
                          id |-> DictGet(wraps[last'.node].children, Val(last'.part))]
          /\ wraps' = wraps]_vars

\* C11 witness: a call that passed headers, debug and cache_lifetime was
\* answered with a child that already existed, which stores none of them
C11_Witness ==
    /\ last.op = "call"
    /\ TruthyStr(last.part)
    /\ last.options = [NoOptions EXCEPT !.headers = Given(H1),
                                        !.debug = Given(Some(TRUE)),
                                        !.cache_lifetime = Given(Some(2))]
    /\ last.ret.kind = "Wrap"
    /\ last.ret.id < Len(wraps)
    /\ wraps[last.ret.id].headers = << >>
    /\ wraps[last.ret.id].debug # Some(TRUE)
    /\ wraps[last.ret.id].cache_lifetime = None

\* C12: node(**opts) without a name returns the node itself, sets on it
\* exactly the attributes opts names, creates no child, issues no request
\* and changes no other node; a child made by property-style access takes
\* the debug the node has at that moment, so children made before
\* node(debug=d) keep theirs and children made afterwards take d.
C12_BareCallPatchesSelf ==
    [][Operated =>
          /\ (last'.op = "call" /\ ~TruthyStr(last'.part)) =>
                LET n == last'.node
                    o == last'.options
                IN /\ last'.ret = [kind |-> "Wrap", id |-> n]
                   /\ Len(wraps') = Len(wraps)
                   /\ \A m \in 1..Len(wraps) : m # n => wraps'[m] = wraps[m]
                   /\ wraps'[n].headers =
                        IF o.headers = Absent THEN wraps[n].headers ELSE Val(o.headers)
                   /\ wraps'[n].debug =
                        IF o.debug = Absent THEN wraps[n].debug ELSE Val(o.debug)
                   /\ wraps'[n].cache_lifetime =
                        IF o.cache_lifetime = Absent THEN wraps[n].cache_lifetime
                        ELSE Val(o.cache_lifetime)
                   /\ wraps'[n].part = wraps[n].part
                   /\ wraps'[n].parent =
                        IF o.parent = Absent THEN wraps[n].parent ELSE Val(o.parent)
                   /\ wraps'[n]._parts = wraps[n]._parts
                   /\ wraps'[n].children = wraps[n].children
                   /\ client' = client
                   /\ now' = now
          /\ (last'.op = "getattr" /\ Len(wraps') = Len(wraps) + 1) =>
                /\ wraps'[Len(wraps')].debug = wraps[last'.node].debug
                /\ \A m \in 1..Len(wraps) : wraps'[m].debug = wraps[m].debug]_vars

\* C12 witness: the root made child a, was patched to the opposite debug,
\* then made child b: a has the old debug and b the new one
C12_Witness ==
    /\ last.op = "getattr"
    /\ last.node = 1
    /\ last.name = "b"
    /\ wraps[1].children = << <<"a", 2>>, <<"b", 3>> >>
    /\ wraps[2].debug = Some(TRUE)
    /\ wraps[1].debug = Some(FALSE)
    /\ wraps[3].debug = Some(FALSE)

\* C13: the headers Client.request hands to the transport are the client's
\* default headers overlaid with the headers argument of the call (every
\* default the caller did not override is sent, the caller's value wins on
\* a shared key), and the call leaves the stored defaults as they were.
C13_ClientHeaderMerge ==
    [][(Operated /\ last'.op = "request" /\ last'.sent # None) =>
          /\ DictEq(Val(last'.sent).headers,
                    DictUpdate(client.headers.items, Val(last'.headers)))
          /\ client'.headers = client.headers]_vars

\* C14: the cache key of a request is (final URL, str(params), str(headers
\* argument)) and nothing else; whenever the cache holds under that key an
\* entry that has not expired, the request returns the stored value without
\* a transport call, whatever its method, data, cache_lifetime or the
\* client's default headers, and the cache is exactly as it was.
C14_LookupByKeyOnly ==
    [][(Operated /\ last'.op = "request") =>
          /\ last'.key = <<last'.url, Str(last'.options.params), Str(last'.headers)>>
          /\ (/\ last'.key \in DOMAIN client.cache
              /\ client.cache[last'.key].expires > last'.t) =>
                 /\ last'.sent = None
                 /\ last'.outcome = "ok"
                 /\ last'.ret = Some(Navigable(client.cache[last'.key].value))
                 /\ client'.cache = client.cache
                 /\ now' = now]_vars

\* C14 witness: a DELETE with data and cache_lifetime=0, made after a
\* default header was set on the Client and after time went by, was
\* answered from the entry a GET had stored
C14_Witness ==
    /\ last.op = "request"
    /\ last.method = "delete"
    /\ last.options.data # None
    /\ last.options.cache_lifetime = Given(Some(0))
    /\ client.headers.items # << >>
    /\ last.key \in DOMAIN hist
    /\ last.t > hist[last.key].t
    /\ last.sent = None
    /\ last.ret = Some(Navigable(Body2))
    /\ last.key \in DOMAIN client.cache

\* the debug flag in force for the request just made: the debug option of
\* the call, else the debug of the node, else the flag of the Client
EffectiveDebug ==
    LET own == wraps[last.node].debug
        arg == IF last.options.debug # Absent THEN Val(last.options.debug) ELSE own
    IN IF arg # None THEN arg ELSE client.debug

\* C15: a request whose effective debug flag is true emits the request
\* trace first and then exactly one more: cached_response when it is
\* answered from the cache without a transport call, and, when the
\* transport answered with a JSON body, success_response for status 200
\* and failure_response for every other status; a request whose effective
\* debug flag is not true emits no trace.
C15_TraceOrdering ==
    last.op = "request" =>
        IF EffectiveDebug = Some(TRUE)
        THEN /\ last.sent = None => last.traces = <<"request", "cached_response">>
             /\ (/\ last.sent # None
                 /\ Val(last.resp).answered
                 /\ Val(last.resp).body # None) =>
                   last.traces = <<"request",
                                   IF Val(last.resp).status = 200
                                   THEN "success_response"
                                   ELSE "failure_response">>
        ELSE last.traces = << >>

RECURSIVE ChainHeaders(_, _)
\* the stored headers of the nodes from the root down to n, merged in that order
ChainHeaders(ws, n) ==
    IF ws[n].parent = ClientId THEN ws[n].headers
    ELSE DictUpdate(ChainHeaders(ws, ws[n].parent), ws[n].headers)

\* C16: a verb call on a node at any depth reaches Client.request once,
\* with the URL of that node, and with a headers argument equal to the
\* stored headers of the nodes from the root down to it merged in that
\* order (the deeper node wins on a shared key) with options.headers
\* merged on top; no header of a node off that path appears.
C16_HeaderInheritance ==
    [][(Operated /\ last'.op = "request") =>
          LET n == last'.node
              path == ExpectedPath(wraps, n)
              top == IF last'.options.headers = None THEN << >>
                     ELSE Val(last'.options.headers)
          IN /\ last'.sent # None
             /\ Val(last'.sent).url = last'.url
             /\ last'.url = IF last'.pk = None THEN path
                            ELSE path \o "/" \o PkText(Val(last'.pk))
             /\ last'.headers # None
             /\ DictEq(Val(last'.headers), DictUpdate(ChainHeaders(wraps, n), top))]_vars

\* C16 witness: root (X=1) / a (X=2, Y=1) / b (Y=3); b requested with
\* Y=8, Z=9 and the Client received X=2, Y=8, Z=9
C16_Witness ==
    /\ last.op = "request"
    /\ Depth(wraps, last.node) = 2
    /\ wraps[1].headers = H1
    /\ wraps[wraps[last.node].parent].headers = H2
    /\ wraps[last.node].headers = HB
    /\ last.options.headers = Some(H4)
    /\ DictEq(Val(last.headers), << <<"X", "2">>, <<"Y", "8">>, <<"Z", "9">> >>)

RECURSIVE NearestLifetime(_, _)
\* the cache_lifetime of n if it is not None, else that of the nearest
\* ancestor that has one, else None
NearestLifetime(ws, n) ==
    IF ws[n].cache_lifetime # None THEN ws[n].cache_lifetime
    ELSE IF ws[n].parent = ClientId THEN None
    ELSE NearestLifetime(ws, ws[n].parent)

\* C17: the cache_lifetime a verb call hands to Client.request is the
\* cache_lifetime option of the call when the call passes one, else the
\* node's own when it is not None, else that of the nearest ancestor that
\* has one, else None; a child made by property-style access stores no
\* cache_lifetime of its own, so a change of an ancestor's reaches the
\* requests of descendants that exist already.
C17_LifetimeResolution ==
    [][Operated =>
          /\ last'.op = "request" =>
                last'.cache_lifetime =
                    IF last'.options.cache_lifetime # Absent
                    THEN Val(last'.options.cache_lifetime)
                    ELSE NearestLifetime(wraps, last'.node)
          /\ (last'.op = "getattr" /\ Len(wraps') = Len(wraps) + 1) =>
                wraps'[Len(wraps')].cache_lifetime = None]_vars

\* C17 witness: a child requested under the root's lifetime 2 and its
\* answer was cached; the root was then set to 3, and the next request of
\* that child, which stores no lifetime, reached the Client with 3
C17_Witness ==
    /\ last.op = "request"
    /\ wraps[last.node].parent = 1
    /\ wraps[last.node].cache_lifetime = None
    /\ wraps[1].cache_lifetime = Some(3)
    /\ last.options.cache_lifetime = Absent
    /\ last.key \in DOMAIN hist
    /\ hist[last.key].lifetime = 2
    /\ last.sent = None
    /\ last.cache_lifetime = Some(3)

\* C18: for every name, the names of the fields and methods of Wrap
\* included, property-style and call-style access return a Wrap whose part
\* is that name and whose parent is the accessed node, and afterwards the
\* node's fields are what they were and its parts, request and verb
\* methods are still found under their names.  (Calls that pass debug= are
\* left out: they are C10's.)
C18_ChildForEveryName ==
    [][(Accessed /\ (last'.op = "call" => last'.options.debug = Absent)) =>
         LET n == last'.node
         IN /\ last'.ret.kind = "Wrap"
            /\ wraps'[last'.ret.id].part = AccessedName
            /\ wraps'[last'.ret.id].parent = n
            /\ \A f \in FieldNames : wraps'[n][f] = wraps[n][f]
            /\ \A m \in MethodNames :
                  Wrap_getattr(wraps', n, m).ret = [kind |-> "method", id |-> n, name |-> m]]_vars

\* C19: in every state reached by child accesses, bare calls node(**opts)
\* and verb calls, the memoized path of every node that has one, the path
\* parts() just returned and the URL a request without url= and pk just
\* used all equal the path recomputed from the node's part and the parent
\* links it has now.
C19_MemoizationSafe ==
    /\ \A n \in Nodes :
          TruthyStr(wraps[n]._parts) => Val(wraps[n]._parts) = ExpectedPath(wraps, n)
    /\ (last.op = "parts" \/ last.op = "request") =>
          (IF last.op = "parts" THEN last.ret ELSE last.url)
              = ExpectedPath(wraps, last.node)

====
